---- MODULE Spec2Model ----
(***************************************************************************)
(* The N-Queens iterative-repair state machine of src/src/lib.rs           *)
(* (struct NQueens and its methods), driven as src/src/bin/nqueens.rs      *)
(* drives it: new, with_verbose, with_state / into_random_state, then      *)
(* step() repeatedly.                                                      *)
(*                                                                         *)
(* Vectors are functions over 0..len-1, so that every index of the model   *)
(* is the index of the source.  A tuple (a, b, c) of the scratch table     *)
(* `costs` is the record [f0 |-> a, f1 |-> b, f2 |-> c].  An Option is a   *)
(* sequence: None is <<>>, Some(v) is <<v>>.                               *)
(*                                                                         *)
(* NQueens.costs is no variable of the model: the first loop of step()     *)
(* rewrites every entry of the table before anything reads it, so what one *)
(* call leaves in it never reaches the next.  Inside Step the table is     *)
(* followed write by write, the entry the second loop does not rewrite     *)
(* included.                                                               *)
(***************************************************************************)
EXTENDS Integers, FiniteSets, Sequences, TLC

VARIABLES
    alive,        \* the caller holds an NQueens value
    n,            \* NQueens.n
    queens,       \* NQueens.queens
    last_queens,  \* NQueens.last_queens
    verbose,      \* NQueens.verbose
    steps,        \* step() calls since new / the last reseed
    op,           \* the last call: its name, argument and result
    loc,          \* the local variables of the last step()
    out,          \* what the last fmt() wrote, row by row
    main          \* the locals of main() of bin/nqueens.rs

vars == <<alive, n, queens, last_queens, verbose, steps, op, loc, out, main>>

\* Largest number of step() calls between two reseeds.
MaxSteps == 2
\* A board is reseeded after at most this many step() calls.
MaxReseedAt == 1
\* Largest board whose costs are rendered.
MaxCostN == 5
\* The state typed at the prompt has at most this many values more than N.
MaxExtra == 1
\* Smallest board new() accepts.
MinN == 4

----------------------------------------------------------------------------
\* Vectors and options

Vecs(len, vals) == [0..(len - 1) -> vals]

len(v) == Cardinality(DOMAIN v)

None == <<>>

Some(v) == <<v>>

\* saturating_sub in place of checked_sub: the difference is clamped at 0
checked_sub_clamped(a, b) == IF b > a THEN Some(0) ELSE Some(a - b)

checked_sub(a, b) == IF b > a THEN None ELSE Some(a - b)

\* usize::checked_add is None only past usize::MAX; the columns of the model
\* stay below MaxN + 2, so the sum is always representable.
checked_add(a, b) == Some(a + b)

----------------------------------------------------------------------------
\* The cost model

\* the filter closure of column_c
column_hit(q, of, x) == x # of /\ q[x] = q[of]

column_c(nn, q, of) == Cardinality({x \in 0..(nn - 1) : column_hit(q, of, x)})

\* `x.checked_sub(of).unwrap_or_default()`: no distance to an earlier row
offset_of_forward(x, of) ==
    LET d == checked_sub(x, of) IN IF d # None THEN d[1] ELSE 0

\* `x.checked_sub(of).unwrap_or_else(|| of - x)`
offset_of(x, of) ==
    LET d == checked_sub(x, of) IN IF d # None THEN d[1] ELSE of - x

\* the filter closure of diagonal_c
diagonal_hit(q, of, x, side) ==
    /\ x # of
    /\ LET offset == offset_of(x, of)
           res == IF side = "Left" THEN checked_sub(q[of], offset)
                                   ELSE checked_add(q[of], offset)
       IN  res # None /\ q[x] = res[1]

diagonal_c(nn, q, of, side) ==
    Cardinality({x \in 0..(nn - 1) : diagonal_hit(q, of, x, side)})

cost_of(nn, q, of) ==
    <<column_c(nn, q, of), diagonal_c(nn, q, of, "Left"), diagonal_c(nn, q, of, "Right")>>

\* `.into_iter().sum::<usize>()` of a [usize; 3]
sum3(c) == c[1] + c[2] + c[3]

RECURSIVE sum_range(_, _)
sum_range(f, k) == IF k < 0 THEN 0 ELSE f[k] + sum_range(f, k - 1)

\* the sum taken over `1..self.n`
overall_cost_from_one(nn, q) ==
    sum_range([queen \in 0..(nn - 1) |-> IF queen = 0 THEN 0 ELSE sum3(cost_of(nn, q, queen))],
              nn - 1)

overall_cost(nn, q) ==
    sum_range([queen \in 0..(nn - 1) |-> sum3(cost_of(nn, q, queen))], nn - 1)

----------------------------------------------------------------------------
\* Records of the last call and of the locals of the last step()

NoOp ==
    [name |-> "none", size |-> 0, arg |-> <<>>, ok |-> TRUE, cost |-> 0,
     dropped |-> 0, panic |-> FALSE]

NoLoc ==
    [pre |-> <<>>, worst_value |-> 0, worst_pos |-> 0, prev_val |-> 0,
     nworst |-> 0, evald |-> <<>>, best_cost |-> 0, new_cost |-> 0,
     nbest |-> 0, hit |-> FALSE, pq |-> 0, pc |-> 0]

\* main() has read nothing yet
NoMain == [pc |-> "start", N |-> 0, verbose |-> FALSE, wants_init |-> FALSE, inp |-> <<>>]

----------------------------------------------------------------------------
\* Construction and reseeding

\* `vec![0; with_n]`
new_queens(with_n) == [i \in 0..(with_n - 1) |-> 0]

\* `vec![(0, 0, 0); with_n]`
new_costs(with_n) == [i \in 0..(with_n - 1) |-> [f0 |-> 0, f1 |-> 0, f2 |-> 0]]

\* `with_n > 4`
new_accepts_above(with_n) == with_n > MinN

\* `(with_n >= 4).then_some(..)`
new_accepts(with_n) == with_n >= MinN

\* NQueens::new(with_n); the value the caller held before, if any, is replaced
New(with_n) ==
    /\ op' = [NoOp EXCEPT !.name = "new", !.size = with_n, !.ok = new_accepts(with_n)]
    /\ UNCHANGED main
    /\ loc' = NoLoc
    /\ steps' = 0
    /\ out' = <<>>
    /\ IF new_accepts(with_n)
       THEN /\ alive' = TRUE
            /\ n' = with_n
            /\ queens' = new_queens(with_n)
            /\ last_queens' = {}
            /\ verbose' = FALSE
       ELSE /\ alive' = FALSE
            /\ n' = 0
            /\ queens' = <<>>
            /\ last_queens' = {}
            /\ verbose' = FALSE

\* a reseed that forgets `self.last_queens.clear()`
clear_nothing(h) == h

\* HashSet::clear
clear(h) == {}

\* `rand::random::<usize>() % self.n`, for every queen
random_states(nn, q) == [DOMAIN q -> 0..(nn - 1)]

into_random_state ==
    /\ alive
    /\ steps <= MaxReseedAt
    /\ \E r \in random_states(n, queens) :
        /\ queens' = r
        /\ last_queens' = clear(last_queens)
        /\ steps' = 0
        /\ op' = [NoOp EXCEPT !.name = "into_random_state",
                              !.dropped = Cardinality(last_queens)]
        /\ loc' = NoLoc
        /\ UNCHANGED <<alive, n, verbose, out, main>>

with_verbose(value) ==
    /\ alive
    /\ verbose' = value
    /\ UNCHANGED <<alive, n, queens, last_queens, steps, op, loc, out, main>>

\* `self.queens.capacity()`: `vec![0; with_n]` allocates exactly with_n
\* elements and the vector never grows
capacity(q) == len(q)

\* `state.len() >= self.queens.capacity()`
with_state_accepts_longer(q, state) == len(state) >= capacity(q)

\* the condition of `.then(..)` in with_state
with_state_accepts(q, state) == len(state) = capacity(q)

\* `.iter_mut().zip(state.iter()).for_each(|(q, &s)| *q = s)`
zip_assign(q, state) ==
    [i \in DOMAIN q |-> IF i \in DOMAIN state THEN state[i] ELSE q[i]]

\* NQueens::with_state(state): consumes the board; on None the closure has
\* not run and the board is dropped as it was
with_state(state) ==
    /\ alive
    /\ steps <= MaxReseedAt
    /\ op' = [NoOp EXCEPT !.name = "with_state", !.arg = state,
                          !.ok = with_state_accepts(queens, state),
                          !.dropped = IF with_state_accepts(queens, state)
                                      THEN Cardinality(last_queens) ELSE 0]
    /\ IF with_state_accepts(queens, state)
       THEN /\ last_queens' = clear(last_queens)
            /\ queens' = zip_assign(queens, state)
            /\ steps' = 0
            /\ loc' = NoLoc
            /\ UNCHANGED <<alive, n, verbose, out, main>>
       ELSE /\ alive' = FALSE
            /\ UNCHANGED <<n, queens, last_queens, verbose, steps, loc, out, main>>

----------------------------------------------------------------------------
\* step()

Range(f) == {f[k] : k \in DOMAIN f}

\* the entry step() writes for a queen in its first loop
queen_entry(nn, q, queen) ==
    [f0 |-> queen, f1 |-> sum3(cost_of(nn, q, queen)), f2 |-> q[queen]]

\* the first loop: `self.costs[queen] = (..)` for every queen of 0..n, on
\* the table new() allocated
first_table(nn, q) ==
    [k \in DOMAIN new_costs(nn) |-> queen_entry(nn, q, k)]

\* `sort_unstable_by(|a, b| b.1.cmp(&a.1))`: the comparison turned around
sort_unstable_by_descending(t) ==
    {[k \in DOMAIN t |-> t[p[k]]] : p \in {x \in Permutations(DOMAIN t) :
        \A a, b \in DOMAIN t : a < b =>
            \/ t[x[a]].f1 > t[x[b]].f1
            \/ (t[x[a]].f1 = t[x[b]].f1 /\ x[a] < x[b])}}

\* `sort_unstable_by(|a, b| a.1.cmp(&b.1))`, as the set of tables it can
\* leave. The library sorts a slice as short as the tables explored here by
\* insertion: entries go in order of cost and entries of equal cost keep
\* the order they had, so the set has one element
sort_unstable_by(t) ==
    {[k \in DOMAIN t |-> t[p[k]]] : p \in {x \in Permutations(DOMAIN t) :
        \A a, b \in DOMAIN t : a < b =>
            \/ t[x[a]].f1 < t[x[b]].f1
            \/ (t[x[a]].f1 = t[x[b]].f1 /\ x[a] < x[b])}}

\* `.filter(|&x| x.1 == value)`, as the set of entries `choose` draws from
tied(t, value) == {e \in Range(t) : e.f1 = value}

\* the block that measures a candidate column: the worst queen is put on
\* col, its cost is taken, and it is put back on prev_val
hypothetical(nn, q, worst_pos, col) ==
    sum3(cost_of(nn, [q EXCEPT ![worst_pos] = col], worst_pos))

\* the columns of the second loop
candidates(nn, prev_val) == {col \in 0..(nn - 1) : col # prev_val}

\* the second loop: `self.costs[col] = (col, .., 0)` for every candidate
\* column; the other entries of the sorted table stay as they are
second_table(nn, q, s1, worst_pos, prev_val) ==
    [k \in DOMAIN s1 |->
        IF k \in candidates(nn, prev_val)
        THEN [f0 |-> k, f1 |-> hypothetical(nn, q, worst_pos, k), f2 |-> 0]
        ELSE s1[k]]

\* the second loop without `self.queens[worst_pos] = prev_val`: the queen
\* stays on the last column measured
evaluated_unrestored(nn, q, worst_pos, prev_val) ==
    IF candidates(nn, prev_val) = {} THEN q
    ELSE [q EXCEPT ![worst_pos] =
            CHOOSE col \in candidates(nn, prev_val) :
                \A other \in candidates(nn, prev_val) : other <= col]

\* the board when the second loop ends: the last assignment of every
\* iteration is `self.queens[worst_pos] = prev_val`
evaluated(nn, q, worst_pos, prev_val) ==
    IF candidates(nn, prev_val) = {} THEN q ELSE [q EXCEPT ![worst_pos] = prev_val]

\* `self.costs.first()` taken for the most expensive entry
first_phase_cheapest(nn, q) ==
    UNION {
        {[worst_value |-> s1[0].f1,
          nworst |-> Cardinality(tied(s1, s1[0].f1)),
          w |-> w,
          t2 |-> second_table(nn, q, s1, w.f0, w.f2)]
         : w \in tied(s1, s1[0].f1)}
        : s1 \in sort_unstable_by(first_table(nn, q))}

\* what the code has fixed when the second loop ends, for the table the
\* first sort leaves and every entry `choose` can draw: worst_value, the
\* drawn entry, and the table as the second loop leaves it
first_phase(nn, q) ==
    UNION {
        {[worst_value |-> s1[len(s1) - 1].f1,
          nworst |-> Cardinality(tied(s1, s1[len(s1) - 1].f1)),
          w |-> w,
          t2 |-> second_table(nn, q, s1, w.f0, w.f2)]
         : w \in tied(s1, s1[len(s1) - 1].f1)}
        : s1 \in sort_unstable_by(first_table(nn, q))}

\* what the code has fixed after the second sort and the second `choose`:
\* best_cost and the drawn entry
second_phase(t2) ==
    UNION {
        {[best_cost |-> s2[0].f1,
          nbest |-> Cardinality(tied(s2, s2[0].f1)),
          b |-> b]
         : b \in tied(s2, s2[0].f1)}
        : s2 \in sort_unstable_by(t2)}

\* a test that finds every board
seen_always(h, q) == TRUE

\* `self.last_queens.contains(&self.queens)`
seen(h, q) == q \in h

\* `rng.gen_range(0..=self.n)`
gen_range_inclusive(nn) == 0..nn

\* the queens and columns `rng.gen_range(0..self.n)` can give
gen_range(nn) == 0..(nn - 1)

\* an `if` arm that writes the drawn column to the drawn queen and to the
\* next one
perturbed_pair(hit, q, pq, pc) ==
    IF hit
    THEN [i \in DOMAIN q |-> IF i = pq \/ i = (pq + 1) % len(q) THEN pc ELSE q[i]]
    ELSE q

\* the two branches on `self.last_queens.contains(&self.queens)`
perturbed(hit, q, pq, pc) == IF hit THEN [q EXCEPT ![pq] = pc] ELSE q

\* the `else` branch without its insert
recorded_never(hit, h, q) == h

recorded(hit, h, q) == IF hit THEN h ELSE h \cup {q}

\* line 199 left out: the board as the branch on `contains` left it
planned_move_skipped(q, worst_pos, new_cost) == q

\* `self.queens[prev_val] = new_cost`: the column taken for the queen
planned_move_by_column(q, worst_pos, new_cost) == [q EXCEPT ![q[worst_pos]] = new_cost]

\* `self.queens[worst_pos] = new_cost`
planned_move(q, worst_pos, new_cost) == [q EXCEPT ![worst_pos] = new_cost]

\* a result that leaves the diagonals out
step_result_columns(nn, q) ==
    sum_range([queen \in 0..(nn - 1) |-> column_c(nn, q, queen)], nn - 1)

\* the value step() returns
step_result(nn, q) == overall_cost(nn, q)

\* an index of the first loop that the board or the table does not have, or
\* an empty table
first_loop_fails(nn, q) ==
    \/ ~((0..(nn - 1)) \subseteq DOMAIN q)
    \/ ~((0..(nn - 1)) \subseteq DOMAIN new_costs(nn))
    \/ DOMAIN new_costs(nn) = {}

\* an index or unwrap failure inside step(): the call unwinds
StepPanics ==
    /\ op' = [NoOp EXCEPT !.name = "step", !.panic = TRUE]
    /\ steps' = steps + 1
    /\ loc' = [NoLoc EXCEPT !.pre = queens]
    /\ UNCHANGED <<alive, n, queens, last_queens, verbose, out, main>>

Step ==
    /\ alive
    /\ steps < MaxSteps
    /\ IF first_loop_fails(n, queens) \/ first_phase(n, queens) = {}
       THEN StepPanics
       ELSE
       \E ph \in first_phase(n, queens) :
         LET worst_pos == ph.w.f0
             prev_val == ph.w.f2
             q2 == evaluated(n, queens, worst_pos, prev_val)
             hit == seen(last_queens, q2)
         IN
         IF worst_pos \notin DOMAIN queens \/ second_phase(ph.t2) = {}
         THEN StepPanics
         ELSE
         \E sp \in second_phase(ph.t2) :
           \E pq \in (IF hit THEN gen_range(n) ELSE {0}),
              pc \in (IF hit THEN gen_range(n) ELSE {0}) :
             IF pq \notin DOMAIN q2
             THEN StepPanics
             ELSE
             LET new_cost == sp.b.f0
                 q4 == planned_move(perturbed(hit, q2, pq, pc), worst_pos, new_cost)
             IN
             /\ queens' = q4
             /\ last_queens' = recorded(hit, last_queens, q2)
             /\ steps' = steps + 1
             /\ op' = [NoOp EXCEPT !.name = "step", !.cost = step_result(n, q4)]
             /\ loc' = [pre |-> queens, worst_value |-> ph.worst_value,
                        worst_pos |-> worst_pos, prev_val |-> prev_val,
                        nworst |-> ph.nworst, evald |-> q2,
                        best_cost |-> sp.best_cost, new_cost |-> new_cost,
                        nbest |-> sp.nbest, hit |-> hit,
                        pq |-> pq, pc |-> pc]
             /\ UNCHANGED <<alive, n, verbose, out, main>>

----------------------------------------------------------------------------
\* fmt()

\* the cells of a row: `if self.queens[row] == i { '*' } else { '.' }`
cells(nn, q, row) == [i \in 0..(nn - 1) |-> IF q[row] = i THEN "*" ELSE "."]

\* `let [lval, cval, rval] = ..`: the column count printed as ld
row_text_shifted(nn, q, v, row) ==
    IF v
    THEN LET cost == cost_of(nn, q, row)
             lval == cost[1]
             cval == cost[2]
             rval == cost[3]
         IN  [cells |-> cells(nn, q, row), verbose |-> TRUE,
              ld |-> lval, rd |-> rval, cc |-> cval, tt |-> sum3(cost)]
    ELSE [cells |-> cells(nn, q, row), verbose |-> FALSE,
          ld |-> 0, rd |-> 0, cc |-> 0, tt |-> 0]

\* one row as fmt() writes it; in verbose mode `[cval, lval, rval]` is
\* cost_of(row) and the row ends with ld, rd, cc and tt
row_text(nn, q, v, row) ==
    IF v
    THEN LET cost == cost_of(nn, q, row)
             cval == cost[1]
             lval == cost[2]
             rval == cost[3]
         IN  [cells |-> cells(nn, q, row), verbose |-> TRUE,
              ld |-> lval, rd |-> rval, cc |-> cval, tt |-> sum3(cost)]
    ELSE [cells |-> cells(nn, q, row), verbose |-> FALSE,
          ld |-> 0, rd |-> 0, cc |-> 0, tt |-> 0]

Display ==
    /\ alive
    /\ out' = [row \in 0..(n - 1) |-> row_text(n, queens, verbose, row)]
    /\ UNCHANGED <<alive, n, queens, last_queens, verbose, steps, op, loc, main>>

----------------------------------------------------------------------------
\* The search engine as a driver can call it

\* the sizes new() is tried with: up to the smallest board it accepts
Sizes == 0..MinN

\* the states with_state() is tried with on a board of size nn: every valid
\* state, the states over column 0 and the first value past the columns,
\* and states that are empty, one element short and one element long
States(nn) ==
    Vecs(nn, 0..(nn - 1)) \cup Vecs(nn, {0, nn})
        \cup {<<>>} \cup Vecs(nn - 1, {0}) \cup Vecs(nn + 1, {nn})

Init ==
    /\ alive = FALSE
    /\ n = 0
    /\ queens = <<>>
    /\ last_queens = {}
    /\ verbose = FALSE
    /\ steps = 0
    /\ op = NoOp
    /\ loc = NoLoc
    /\ out = <<>>
    /\ main = NoMain

Next ==
    \/ \E with_n \in Sizes : New(with_n)
    \/ into_random_state
    \/ \E state \in States(n) : with_state(state)
    \/ Step

Spec == Init /\ [][Next]_vars

----------------------------------------------------------------------------
\* Rendering: a board of any size up to MaxCostN, seeded as
\* `NQueens::new(N).unwrap().into_random_state()` seeds it, is rendered in
\* either mode

InitCost ==
    \E nn \in MinN..MaxCostN : \E r \in random_states(nn, new_queens(nn)) :
        /\ alive = TRUE
        /\ n = nn
        /\ queens = r
        /\ last_queens = {}
        /\ verbose = FALSE
        /\ steps = 0
        /\ op = [NoOp EXCEPT !.name = "into_random_state"]
        /\ loc = NoLoc
        /\ out = <<>>
        /\ main = NoMain

NextCost ==
    \/ \E value \in BOOLEAN : with_verbose(value)
    \/ Display

SpecCost == InitCost /\ [][NextCost]_vars

----------------------------------------------------------------------------
\* main() of bin/nqueens.rs up to its step loop: the prompts, the parsing of
\* the state typed by the user, the construction and the seeding of the
\* board.  A line is followed as the values `split(',')` gives: a number, or
\* a text that `parse::<usize>()` refuses; no value at all stands for a
\* prompt at which stdin gave no line.

\* a value that `parse::<usize>()` refuses
Unparsable == -1

\* the values tried at the prompt for a board of size nn
Tokens(nn) == {Unparsable, 0, nn - 1, nn}

\* the lines tried at the prompt for a board of size nn
Inputs(nn) == UNION {Vecs(k, Tokens(nn)) : k \in 0..(nn + MaxExtra)}

\* the check of the first prompt: `(val >= 4).then_some(val)`
n_accepted(val) == val >= MinN

\* `res > N`: the largest column taken for one past it
rejected_above(nn, val) == val = Unparsable \/ val > nn

\* the two Err arms of the closure of try_for_each
rejected(nn, val) == val = Unparsable \/ val >= nn

\* the values pushed to `array` when try_for_each stops
pushed(nn, inp) ==
    LET stop == IF \E i \in DOMAIN inp : rejected(nn, inp[i])
                THEN CHOOSE i \in DOMAIN inp :
                        /\ rejected(nn, inp[i])
                        /\ \A j \in DOMAIN inp : j < i => ~rejected(nn, inp[j])
                ELSE len(inp)
    IN  [i \in 0..(stop - 1) |-> inp[i]]

\* the Result of the prompt for the state: Err when no line was read, when
\* try_for_each returned Err, and when `array.len() != N`
parse_state(nn, inp) ==
    IF \/ inp = <<>>
       \/ \E i \in DOMAIN inp : rejected(nn, inp[i])
       \/ len(pushed(nn, inp)) # nn
    THEN [ok |-> FALSE, array |-> <<>>]
    ELSE [ok |-> TRUE, array |-> pushed(nn, inp)]

\* `wants_init.then(|| ..)`
initial(m) == IF m.wants_init THEN Some(parse_state(m.N, m.inp)) ELSE None

\* the prompts: N, verbose, wants_init and, if wanted, the state; a refused
\* N ends main() with Err
main_ask ==
    /\ main.pc = "start"
    /\ \E val \in Sizes :
        IF n_accepted(val)
        THEN \E v \in BOOLEAN, w \in BOOLEAN :
               \E inp \in (IF w THEN Inputs(val) ELSE {<<>>}) :
                 main' = [pc |-> "asked", N |-> val, verbose |-> v,
                          wants_init |-> w, inp |-> inp]
        ELSE main' = [NoMain EXCEPT !.pc = "exit", !.N = val]
    /\ UNCHANGED <<alive, n, queens, last_queens, verbose, steps, op, loc, out>>

\* `NQueens::new(N).unwrap()`
main_new ==
    /\ main.pc = "asked"
    /\ op = NoOp
    /\ New(main.N)

\* `.with_verbose(verbose)`
main_verbose ==
    /\ main.pc = "asked"
    /\ op.name = "new"
    /\ with_verbose(main.verbose)

\* `match initial { .. }`: with_state(&a).unwrap() or into_random_state()
main_seed ==
    /\ main.pc = "asked"
    /\ op.name = "new"
    /\ verbose = main.verbose
    /\ IF initial(main) # None /\ initial(main)[1].ok
       THEN with_state(initial(main)[1].array)
       ELSE into_random_state

NextMain ==
    \/ main_ask
    \/ main_new
    \/ main_verbose
    \/ main_seed

SpecMain == Init /\ [][NextMain]_vars

----------------------------------------------------------------------------
\* What the claims speak of, stated without the code's operators

\* a board of size nn with every column in [0, nn)
Valid(nn, q) == DOMAIN q = 0..(nn - 1) /\ \A i \in DOMAIN q : q[i] \in 0..(nn - 1)

\* two queens on a common column or diagonal
Attack(q, i, j) ==
    /\ i # j
    /\ \/ q[i] = q[j]
       \/ q[i] - q[j] = i - j
       \/ q[i] - q[j] = j - i

\* the unordered pairs of queens that attack each other
AttackingPairs(nn, q) ==
    {pr \in (0..(nn - 1)) \X (0..(nn - 1)) : pr[1] < pr[2] /\ Attack(q, pr[1], pr[2])}

\* the row distance |j - i|
Dist(i, j) == IF i < j THEN j - i ELSE i - j

\* C1: the value step() returns is the total cost of the board the step
\* leaves, that is twice the number of attacking pairs of that board; so a
\* step that returns 0 leaves a board without two queens on a common column
\* or diagonal.
C1_StepReturnsCostOfResult ==
    (op.name = "step" /\ ~op.panic) =>
        /\ op.cost = 2 * Cardinality(AttackingPairs(n, queens))
        /\ (op.cost = 0 => \A i, j \in DOMAIN queens : ~Attack(queens, i, j))

\* a step that perturbed a queen other than the worst one, moved it to a new
\* column, and returned a positive cost
C1_Witness ==
    /\ op.name = "step"
    /\ loc.hit
    /\ loc.pq # loc.worst_pos
    /\ loc.pc # loc.pre[loc.pq]
    /\ op.cost > 0

\* C2: on a valid board overall_cost is twice the number of unordered
\* attacking pairs; it is even, and it is 0 exactly when no two queens share
\* a column or a diagonal.
C2_TotalCostCountsPairsTwice ==
    (alive /\ Valid(n, queens)) =>
        /\ overall_cost(n, queens) = 2 * Cardinality(AttackingPairs(n, queens))
        /\ overall_cost(n, queens) % 2 = 0
        /\ (overall_cost(n, queens) = 0
                <=> \A i, j \in DOMAIN queens : ~Attack(queens, i, j))

\* a board of the largest size, rendered with its costs, that has attacking
\* pairs both on a column and on a diagonal
C2_Witness ==
    /\ alive /\ Valid(n, queens) /\ n = MaxCostN
    /\ out # <<>> /\ out[0].verbose
    /\ \E i, j \in DOMAIN queens : i # j /\ queens[i] = queens[j]
    /\ \E i, j \in DOMAIN queens : i # j /\ queens[i] - queens[j] = i - j
    /\ overall_cost(n, queens) > 0

\* C3: on a valid board cost_of(i) is the triple of the numbers of queens
\* j # i with positions[j] = positions[i], with positions[j] =
\* positions[i] - |j - i| and with positions[j] = positions[i] + |j - i|,
\* the difference and the sum taken in the integers: nothing wraps around
\* and nothing is clamped.
C3_CostOfCountsExactly ==
    (alive /\ Valid(n, queens)) =>
        \A i \in DOMAIN queens :
            cost_of(n, queens, i) =
                <<Cardinality({j \in DOMAIN queens : j # i /\ queens[j] = queens[i]}),
                  Cardinality({j \in DOMAIN queens :
                                  j # i /\ queens[j] = queens[i] - Dist(i, j)}),
                  Cardinality({j \in DOMAIN queens :
                                  j # i /\ queens[j] = queens[i] + Dist(i, j)})>>

\* a rendered board with a queen whose left diagonal leaves the board below
\* column 0 where another queen stands on column 0, and a queen whose right
\* diagonal leaves the board past column n - 1 where another queen stands on
\* column n - 1
C3_Witness ==
    /\ alive /\ Valid(n, queens)
    /\ out # <<>> /\ out[0].verbose
    /\ \E i, j \in DOMAIN queens :
          i # j /\ queens[i] - Dist(i, j) < 0 /\ queens[j] = 0
    /\ \E i, j \in DOMAIN queens :
          i # j /\ queens[i] + Dist(i, j) > n - 1 /\ queens[j] = n - 1

\* C4: the per-queen cost is symmetric: queen j counts in the column count
\* of queen i exactly when i counts in the column count of j, and j counts in
\* the left-diagonal count of i exactly when i counts in the right-diagonal
\* count of j, and the same with left and right exchanged.
C4_CostIsSymmetric ==
    (alive /\ Valid(n, queens)) =>
        \A i, j \in DOMAIN queens :
            i # j =>
                /\ column_hit(queens, i, j) <=> column_hit(queens, j, i)
                /\ diagonal_hit(queens, i, j, "Left") <=> diagonal_hit(queens, j, i, "Right")
                /\ diagonal_hit(queens, i, j, "Right") <=> diagonal_hit(queens, j, i, "Left")

\* a rendered board with a pair on a common diagonal, the later queen on the
\* left diagonal of the earlier one, and a pair on a common column
C4_Witness ==
    /\ alive /\ Valid(n, queens)
    /\ out # <<>>
    /\ \E i, j \in DOMAIN queens : i < j /\ diagonal_hit(queens, i, j, "Left")
    /\ \E i, j \in DOMAIN queens : i < j /\ column_hit(queens, i, j)

\* C5: whenever a board is held, positions has length n and every value of
\* it lies in [0, n).
C5_PositionsInRange ==
    alive => (len(queens) = n /\ \A i \in DOMAIN queens : queens[i] \in 0..(n - 1))

\* C6: a with_state call fails, and leaves positions and visited as they
\* were, when some element of its argument is >= n, also when the argument
\* has exactly n elements.
C6_OutOfRangeRejected ==
    [][(op'.name = "with_state" /\ \E i \in DOMAIN op'.arg : op'.arg[i] >= n)
           => (~op'.ok /\ queens' = queens /\ last_queens' = last_queens)]_vars

\* C7: a with_state call whose argument has not exactly n elements fails
\* and leaves positions and visited as they were.
C7_SizeMismatchRejected ==
    [][(op'.name = "with_state" /\ len(op'.arg) # n)
           => (~op'.ok /\ queens' = queens /\ last_queens' = last_queens /\ n' = n)]_vars

\* a with_state call rejected on a board that has stepped and has a history
C7_Witness ==
    /\ op.name = "with_state" /\ ~op.ok
    /\ len(op.arg) = n + 1
    /\ steps > 0
    /\ last_queens # {}

\* C8: new(size) gives no board when size < 4, and for size >= 4 it gives
\* the board with size zeros as positions, an empty visited and verbose
\* false.
C8_NewIsFixed ==
    op.name = "new" =>
        /\ op.ok <=> op.size >= 4
        /\ ~op.ok => ~alive
        /\ op.ok =>
            /\ alive
            /\ n = op.size
            /\ DOMAIN queens = 0..(op.size - 1)
            /\ \A i \in DOMAIN queens : queens[i] = 0
            /\ last_queens = {}
            /\ verbose = FALSE

\* a board of size 4 just constructed
C8_Witness == op.name = "new" /\ op.ok /\ op.size = 4 /\ alive

\* C9: after into_random_state visited is empty and every position lies in
\* [0, n); after a successful with_state visited is empty and positions is
\* the argument, element for element.
C9_ReseedDiscardsHistory ==
    /\ op.name = "into_random_state" =>
          (last_queens = {} /\ \A i \in DOMAIN queens : queens[i] \in 0..(n - 1))
    /\ (op.name = "with_state" /\ op.ok) =>
          (last_queens = {} /\ queens = op.arg)

\* a successful with_state on a board whose history was not empty
C9_Witness ==
    /\ op.name = "with_state" /\ op.ok
    /\ op.dropped > 0
    /\ Valid(n, queens)
    /\ \E i \in DOMAIN queens : queens[i] # 0

\* C10: a step() on a valid board does not fail: both sets `choose` draws
\* from are non-empty, and every index used on positions and on the scratch
\* table lies in [0, n).
C10_StepIsTotal ==
    (op.name = "step" /\ Valid(n, loc.pre)) =>
        /\ ~op.panic
        /\ loc.nworst > 0
        /\ loc.nbest > 0
        /\ loc.worst_pos \in 0..(n - 1)
        /\ loc.pq \in 0..(n - 1)
        /\ candidates(n, loc.prev_val) \subseteq 0..(n - 1)
        /\ DOMAIN new_costs(n) = 0..(n - 1)
        /\ DOMAIN loc.pre = 0..(n - 1)

\* a step on a valid board with a history that took the perturbation branch
\* and perturbed the last queen
C10_Witness ==
    /\ op.name = "step" /\ ~op.panic
    /\ Valid(n, loc.pre)
    /\ loc.hit
    /\ loc.pq = n - 1

\* the queens whose column differs between two boards
Diff(a, b) == {i \in DOMAIN a : a[i] # b[i]}

\* the last call was a step() on a valid board without attacking pairs that
\* was not in visited
SolvedStep ==
    /\ op.name = "step" /\ ~op.panic
    /\ Valid(n, loc.pre)
    /\ AttackingPairs(n, loc.pre) = {}
    /\ ~loc.hit

\* C11: a step() on a board of total cost 0 that is not in visited returns
\* 0 and leaves a board of total cost 0.
C11_SolvedBoardStays ==
    SolvedStep =>
        /\ op.cost = 0
        /\ overall_cost(n, queens) = 0
        /\ AttackingPairs(n, queens) = {}

\* a step on a solved board in which every queen was tied as the worst one
\* and the last queen was drawn
C11_Witness ==
    /\ SolvedStep
    /\ loc.nworst = n
    /\ loc.worst_pos = n - 1
    /\ op.cost = 0

\* the last call was the first step() of a board of size 4 seeded with
\* [0, 0, 0, 0]
FirstStepFromZeros ==
    /\ op.name = "step" /\ ~op.panic
    /\ n = 4
    /\ loc.pre = [i \in 0..3 |-> 0]
    /\ steps = 1

\* C12: the first step() from [0, 0, 0, 0] on a board of size 4 changes the
\* column of exactly one queen, that queen has fewer conflicts on its new
\* column than the 3 it had, and the cost returned is below the 12 the board
\* had.
C12_FirstStepFromZerosImproves ==
    FirstStepFromZeros =>
        /\ ~loc.hit
        /\ overall_cost(n, loc.pre) = 12
        /\ Cardinality(Diff(queens, loc.pre)) = 1
        /\ \A i \in Diff(queens, loc.pre) :
              /\ sum3(cost_of(n, loc.pre, i)) = 3
              /\ sum3(cost_of(n, queens, i)) < 3
        /\ op.cost < 12

\* the first step from [0, 0, 0, 0] moved the last queen to the last column
C12_Witness == FirstStepFromZeros /\ queens[3] = 3

\* C13 (the driver loop eventually obtains 0 when every random choice is
\* resolved fairly) is not settled here: it speaks of runs of unboundedly
\* many step() calls, in which last_queens ranges over the sets of boards.

\* the text o renders the board q of size nn, written in mode v: every row
\* has one `*`, on the column of its queen, and `.` elsewhere, and a verbose
\* row carries the components of cost_of and their sum
Renders(nn, q, v, o) ==
    /\ DOMAIN o = 0..(nn - 1)
    /\ \A r \in DOMAIN o :
          /\ DOMAIN o[r].cells = 0..(nn - 1)
          /\ {c \in DOMAIN o[r].cells : o[r].cells[c] = "*"} = {q[r]}
          /\ \A c \in DOMAIN o[r].cells : c # q[r] => o[r].cells[c] = "."
          /\ o[r].verbose = v
          /\ v => /\ o[r].cc = cost_of(nn, q, r)[1]
                  /\ o[r].ld = cost_of(nn, q, r)[2]
                  /\ o[r].rd = cost_of(nn, q, r)[3]
                  /\ o[r].ld = Cardinality({j \in DOMAIN q :
                                    j # r /\ q[j] = q[r] - Dist(r, j)})
                  /\ o[r].rd = Cardinality({j \in DOMAIN q :
                                    j # r /\ q[j] = q[r] + Dist(r, j)})
                  /\ o[r].cc = Cardinality({j \in DOMAIN q : j # r /\ q[j] = q[r]})
                  /\ o[r].tt = o[r].ld + o[r].rd + o[r].cc

\* C14: whenever fmt() writes, what it writes renders the valid board it
\* was called on, in the mode the board is in, and positions and visited
\* are left as they were.
C14_RenderingIsFaithful ==
    [][(out' # out /\ Valid(n, queens))
          => /\ Renders(n, queens, verbose, out')
             /\ queens' = queens
             /\ last_queens' = last_queens]_vars

\* a verbose rendering of a board of the largest size with a queen that has
\* a conflict on its left diagonal and none on its right one
C14_Witness ==
    /\ out # <<>>
    /\ n = MaxCostN
    /\ Valid(n, queens)
    /\ Renders(n, queens, TRUE, out)
    /\ \E r \in DOMAIN out : out[r].ld > 0 /\ out[r].rd = 0 /\ out[r].cc > 0

\* the largest overall cost of a queen of board q
MaxQueenCost(nn, q) ==
    CHOOSE m \in {sum3(cost_of(nn, q, i)) : i \in DOMAIN q} :
        \A i \in DOMAIN q : sum3(cost_of(nn, q, i)) <= m

\* the queens of board q whose cost is the largest one
WorstQueens(nn, q) ==
    {i \in DOMAIN q : sum3(cost_of(nn, q, i)) = MaxQueenCost(nn, q)}

\* step() can be called on the board and its first loop completes
CanStep ==
    /\ alive
    /\ steps < MaxSteps
    /\ ~first_loop_fails(n, queens)

\* the queens Step can draw as worst_pos on the current board
WorstDraws ==
    {ph.w.f0 : ph \in {x \in first_phase(n, queens) : second_phase(x.t2) # {}}}

\* C15: the queen a step() selects had a cost equal to the largest cost of
\* a queen of the board the step started from, prev_val is the column it had
\* there, and from every board every queen of that largest cost can be the
\* one selected.
C15_WorstQueenIsSelected ==
    /\ (op.name = "step" /\ ~op.panic) =>
          /\ loc.worst_pos \in WorstQueens(n, loc.pre)
          /\ loc.worst_value = MaxQueenCost(n, loc.pre)
          /\ loc.prev_val = loc.pre[loc.worst_pos]
    /\ CanStep =>
          WorstQueens(n, queens) \subseteq WorstDraws

\* a step that drew the last queen out of several tied at the largest cost
C15_Witness ==
    /\ op.name = "step"
    /\ ~op.panic
    /\ loc.nworst > 1
    /\ Cardinality(WorstQueens(n, loc.pre)) = loc.nworst
    /\ loc.worst_pos = n - 1

\* a step() that returned, taken from a valid board
StepDone ==
    /\ op.name = "step"
    /\ ~op.panic
    /\ Valid(n, loc.pre)

\* C16: the column chosen for the planned move is a candidate column, a
\* column of the board other than the one the selected queen had before the
\* step, so without a perturbation that queen's column has changed.
C16_NewColIsCandidate ==
    StepDone =>
        /\ loc.new_cost \in candidates(n, loc.prev_val)
        /\ ~loc.hit => queens[loc.worst_pos] # loc.pre[loc.worst_pos]

\* the smallest cost the queen i of board q can have on a column other
\* than its own
BestCost(nn, q, i) ==
    CHOOSE m \in {hypothetical(nn, q, i, col) : col \in candidates(nn, q[i])} :
        \A col \in candidates(nn, q[i]) : m <= hypothetical(nn, q, i, col)

\* the columns other than its own on which queen i of board q has that cost
BestColumns(nn, q, i) ==
    {col \in candidates(nn, q[i]) : hypothetical(nn, q, i, col) = BestCost(nn, q, i)}

\* the columns Step can draw as new_cost on the current board once it has
\* drawn queen i as worst_pos
ColumnDraws(i) ==
    {sp.b.f0 : sp \in UNION {second_phase(ph.t2) :
                        ph \in {x \in first_phase(n, queens) : x.w.f0 = i}}}

\* C17: the cost the selected queen would have on the chosen column, the
\* other queens staying where they were, is the smallest such cost over the
\* columns other than prev_val, and every column of that smallest cost can
\* be the one chosen.
C17_NewColIsCheapest ==
    /\ StepDone =>
          hypothetical(n, loc.pre, loc.worst_pos, loc.new_cost)
              = BestCost(n, loc.pre, loc.worst_pos)
    /\ (CanStep /\ Valid(n, queens)) =>
          \A i \in WorstQueens(n, queens) :
              BestColumns(n, queens, i) \subseteq ColumnDraws(i)

\* a step that builds a fresh list of the costs of the queens, then a fresh
\* list of the candidate columns with their hypothetical costs: the
\* outcomes <<positions, visited, returned cost>> it can have on board q
\* with visited h
FreshOutcomes(nn, q, h) ==
    UNION {
        {<<planned_move(perturbed(seen(h, q), q, pq, pc), i, col),
           recorded(seen(h, q), h, q),
           overall_cost(nn, planned_move(perturbed(seen(h, q), q, pq, pc), i, col))>>
         : pq \in (IF seen(h, q) THEN 0..(nn - 1) ELSE {0}),
           pc \in (IF seen(h, q) THEN 0..(nn - 1) ELSE {0})}
        : <<i, col>> \in {x \in WorstQueens(nn, q) \X (0..(nn - 1)) :
                            x[2] \in BestColumns(nn, q, x[1])}}

\* visited as it was when the last step() started
VisitedBefore == IF loc.hit THEN last_queens ELSE last_queens \ {loc.pre}

\* C18: step() with the reused table has the outcomes of the step with
\* fresh lists: what a step leaves is an outcome of the fresh-list step,
\* and every outcome of the fresh-list step is one a step can leave.
C18_ReuseChangesNothing ==
    /\ StepDone =>
          <<queens, last_queens, op.cost>>
              \in FreshOutcomes(n, loc.pre, VisitedBefore)
    /\ (CanStep /\ Valid(n, queens)) =>
          \A o \in FreshOutcomes(n, queens, last_queens) :
              ENABLED (Step /\ queens' = o[1] /\ last_queens' = o[2]
                            /\ op'.cost = o[3])

\* C19: a step() perturbs the board exactly when the board it starts from
\* is in visited; then one queen of the board is set to one column of the
\* board and visited stays as it is; otherwise no queen but the selected one
\* changes and visited gains the board the step started from and nothing
\* else.
C19_PerturbIffVisited ==
    [][(op'.name = "step" /\ steps' = steps + 1 /\ ~op'.panic) =>
          /\ loc'.hit <=> (queens \in last_queens)
          /\ loc'.hit =>
                /\ last_queens' = last_queens
                /\ loc'.pq \in 0..(n - 1)
                /\ loc'.pc \in 0..(n - 1)
                /\ \A i \in DOMAIN queens :
                      (i # loc'.worst_pos /\ i # loc'.pq) => queens'[i] = queens[i]
                /\ loc'.pq # loc'.worst_pos => queens'[loc'.pq] = loc'.pc
          /\ ~loc'.hit =>
                /\ last_queens' = last_queens \cup {queens}
                /\ queens \notin last_queens
                /\ Diff(queens', queens) \subseteq {loc'.worst_pos}]_vars

\* a step from a board in visited that set a queen other than the selected
\* one to a column it did not have
C19_Witness ==
    /\ op.name = "step"
    /\ ~op.panic
    /\ loc.hit
    /\ loc.pre \in last_queens
    /\ loc.pq # loc.worst_pos
    /\ queens[loc.pq] = loc.pc
    /\ loc.pre[loc.pq] # loc.pc

\* C20: when a step() ends the selected queen is on the chosen column,
\* whether or not the step perturbed the board and whichever queen the
\* perturbation set; the other queens are as the perturbation left them.
C20_PlannedMoveIsLast ==
    (op.name = "step" /\ ~op.panic) =>
        /\ queens[loc.worst_pos] = loc.new_cost
        /\ \A i \in DOMAIN queens : i # loc.worst_pos =>
              queens[i] = IF loc.hit /\ i = loc.pq THEN loc.pc ELSE loc.pre[i]

\* a step whose perturbation set the selected queen itself to a column
\* other than the chosen one
C20_Witness ==
    /\ op.name = "step"
    /\ ~op.panic
    /\ loc.hit
    /\ loc.pq = loc.worst_pos
    /\ loc.pc # loc.new_cost
    /\ loc.pc # loc.pre[loc.pq]
    /\ queens[loc.worst_pos] = loc.new_cost

\* C21: when the second loop of a step() ends the board is the board the
\* step started from, so the membership test and the insert into visited
\* are made with that board.
C21_EvaluationIsProvisional ==
    (op.name = "step" /\ ~op.panic) =>
        /\ loc.evald = loc.pre
        /\ loc.hit <=> (loc.pre \in VisitedBefore)
        /\ ~loc.hit => last_queens = VisitedBefore \cup {loc.pre}
        /\ loc.hit => last_queens = VisitedBefore

\* a step that measured the columns of the last queen, recorded the board
\* it started from and then moved that queen
C21_Witness ==
    /\ op.name = "step"
    /\ ~op.panic
    /\ ~loc.hit
    /\ loc.worst_pos = n - 1
    /\ loc.evald = loc.pre
    /\ loc.pre \in last_queens
    /\ queens \notin last_queens

\* C23: a step() that does not perturb changes no queen but the selected
\* one; a step that perturbs changes no queen but the perturbed one and the
\* selected one.
C23_StepChangesFewQueens ==
    (op.name = "step" /\ ~op.panic) =>
        /\ ~loc.hit =>
              /\ Diff(queens, loc.pre) \subseteq {loc.worst_pos}
              /\ Cardinality(Diff(queens, loc.pre)) <= 1
        /\ loc.hit =>
              /\ Diff(queens, loc.pre) \subseteq {loc.pq, loc.worst_pos}
              /\ Cardinality(Diff(queens, loc.pre)) <= 2

\* a perturbing step after which two queens are on other columns
C23_Witness ==
    /\ op.name = "step"
    /\ ~op.panic
    /\ loc.hit
    /\ Diff(queens, loc.pre) = {loc.pq, loc.worst_pos}
    /\ loc.pq # loc.worst_pos

\* C24: the first step() after new, into_random_state or a with_state that
\* returned Some does not perturb, and leaves in visited the board it
\* started from and nothing else.
C24_FirstStepRecordsOnly ==
    (op.name = "step" /\ ~op.panic /\ steps = 1) =>
        /\ ~loc.hit
        /\ last_queens = {loc.pre}
        /\ Cardinality(last_queens) = 1

\* a first step from a seeded board, which it changed
C24_Witness ==
    /\ op.name = "step"
    /\ ~op.panic
    /\ steps = 1
    /\ loc.pre # new_queens(n)
    /\ queens # loc.pre
    /\ last_queens = {loc.pre}

\* C25: a step() adds to visited at most the board it started from and
\* removes nothing; at all times visited has no more members than step()
\* was called since the last reseed, and every member is a board of n
\* columns in 0..n-1.
C25_VisitedGrowsByPreStepBoards ==
    [][/\ (op'.name = "step" /\ steps' = steps + 1) =>
              /\ last_queens \subseteq last_queens'
              /\ last_queens' \subseteq last_queens \cup {queens}
       /\ Cardinality(last_queens') <= steps'
       /\ \A b \in last_queens' : Valid(n', b)]_vars

\* the line typed at the prompt for the state is N numbers, each a column
\* of the board
GoodInput ==
    /\ main.wants_init
    /\ DOMAIN main.inp = 0..(main.N - 1)
    /\ \A i \in DOMAIN main.inp : main.inp[i] \in 0..(main.N - 1)

\* C22: main() seeds the board with the state the user typed exactly when
\* that state is N values below N, and with_state then returns Some; for
\* every other line, and when no state is wanted, it seeds the board at
\* random and does not stop; either way the board that enters the loop has
\* its columns in [0, N) and visited is empty.
C22_DriverSeedsOrFallsBack ==
    [][(main.pc = "asked" /\ op.name = "new" /\ op'.name # "new") =>
          /\ alive'
          /\ GoodInput =>
                (op'.name = "with_state" /\ op'.ok /\ queens' = main.inp)
          /\ ~GoodInput => op'.name = "into_random_state"
          /\ n' = main.N
          /\ Valid(n', queens')
          /\ last_queens' = {}]_vars

\* main() fell back to a random board on a line of N values of which one
\* is N
C22_Witness ==
    /\ main.pc = "asked"
    /\ op.name = "into_random_state"
    /\ alive
    /\ main.wants_init
    /\ len(main.inp) = main.N
    /\ \E i \in DOMAIN main.inp : main.inp[i] = main.N
    /\ \A i \in DOMAIN main.inp : main.inp[i] # Unparsable

====
